---------------------------- MODULE Spec2Model ----------------------------
(***************************************************************************)
(* Model of amaranth_boards/numato_neso.py: the NumatoNesoPlatform class   *)
(* (its class attributes, resources and connectors tables), its            *)
(* toolchain_prepare override and the module's script entry point.         *)
(*                                                                         *)
(* Text is modelled as a sequence of string pieces whose concatenation is  *)
(* the Python string; a whitespace-separated pin list is modelled as the   *)
(* sequence of its names in source order.  A keyword mapping (a Python     *)
(* dict with string keys) is a function from a set of strings.             *)
(***************************************************************************)
EXTENDS Integers, Sequences, FiniteSets, TLC

(***************************************************************************)
(* Bounds of the exploration.                                              *)
(***************************************************************************)
MaxCalls == 2
MaxKwargs == 2

(***************************************************************************)
(* Small helpers.                                                          *)
(***************************************************************************)
Range(s) == {s[i] : i \in DOMAIN s}

RECURSIVE Flatten(_)
Flatten(ss) == IF ss = <<>> THEN <<>> ELSE Head(ss) \o Flatten(Tail(ss))

NoAttrs == [k \in {} |-> ""]

(***************************************************************************)
(* Constructors of the build framework's descriptors, as records.          *)
(***************************************************************************)
Pins(names, dir) ==
    [kind |-> "Pins", pins |-> names, npins |-> <<>>, dir |-> dir]

PinsN(names, dir) ==
    [kind |-> "PinsN", pins |-> names, npins |-> <<>>, dir |-> dir]

DiffPairs(p, n, dir) ==
    [kind |-> "DiffPairs", pins |-> p, npins |-> n, dir |-> dir]

Subsignal(name, io, attrs) ==
    [name |-> name, io |-> io, attrs |-> attrs]

Resource(name, number, ios, clock, attrs) ==
    [name |-> name, number |-> number, ios |-> ios,
     clock |-> clock, attrs |-> attrs]

Connector(name, number, keyed, io) ==
    [name |-> name, number |-> number, keyed |-> keyed, io |-> io]

(***************************************************************************)
(* Class attributes of NumatoNesoPlatform.                                 *)
(***************************************************************************)
device == "xc7a100t"

package == "csg324"

speed == "2"

default_clk == "clk100"

default_rst == "rst"

\* Resource("clk100", 0, Pins("F4", dir="i"), Clock(100e6), Attrs(...))
clk100_resource ==
    Resource("clk100", 0,
        << Subsignal("", Pins(<<"F4">>, "i"), NoAttrs) >>,
        "100e6", [IOSTANDARD |-> "LVCMOS33"])

DiffSstl15 == [IOSTANDARD |-> "DIFF_SSTL15", IN_TERM |-> "UNTUNED_SPLIT_50"]

\* Resource("ddr3", 0, Subsignal(...), ..., Attrs(IOSTANDARD="SSTL15", SLEW="FAST"))
ddr3_resource ==
    Resource("ddr3", 0,
        << Subsignal("rst",    PinsN(<<"U8">>, "o"), NoAttrs),
           Subsignal("clk",    DiffPairs(<<"L6">>, <<"L5">>, "o"), DiffSstl15),
           Subsignal("clk_en", Pins(<<"M1">>, "o"), NoAttrs),
           Subsignal("cs",     PinsN(<<"K6">>, "o"), NoAttrs),
           Subsignal("we",     PinsN(<<"N2">>, "o"), NoAttrs),
           Subsignal("ras",    PinsN(<<"N4">>, "o"), NoAttrs),
           Subsignal("cas",    PinsN(<<"L1">>, "o"), NoAttrs),
           Subsignal("a",      Pins(<<"M4", "P4", "M6", "T1", "L3", "P5", "M2",
                                      "N1", "L4", "N5", "R2", "K5", "N6", "K3">>,
                                    "o"), NoAttrs),
           Subsignal("ba",     Pins(<<"P2", "P3", "R1">>, "o"), NoAttrs),
           Subsignal("dqs",    DiffPairs(<<"U9", "U2">>, <<"V9", "V2">>, "io"),
                               DiffSstl15),
           Subsignal("dq",     Pins(<<"R7", "V6", "R8", "U7", "V7", "R6", "U6",
                                      "R5", "T5", "U3", "V5", "U4", "V4", "T4",
                                      "V1", "T3">>, "io"),
                               [IN_TERM |-> "UNTUNED_SPLIT_50"]),
           Subsignal("dm",     Pins(<<"T6", "U1">>, "o"), NoAttrs),
           Subsignal("odt",    Pins(<<"M3">>, "o"), NoAttrs) >>,
        "", [IOSTANDARD |-> "SSTL15", SLEW |-> "FAST"])

\* The keyword arguments given to SPIFlashResources(0, ...).
SPIFlashArgs ==
    [cs_n |-> "L13", clk |-> "E9", copi |-> "K17", cipo |-> "K18",
     wp_n |-> "L14", hold_n |-> "F18",
     attrs |-> [IOSTANDARD |-> "LVCMOS33"]]

\* The resource family the SPI flash helper generates for one flash chip:
\* one resource per bus width, all with the given number.
SPIFlashResources(number, a) ==
    << Resource("spi_flash_1x", number,
          << Subsignal("cs",   PinsN(<<a.cs_n>>, "o"), NoAttrs),
             Subsignal("clk",  Pins(<<a.clk>>, "o"), NoAttrs),
             Subsignal("copi", Pins(<<a.copi>>, "o"), NoAttrs),
             Subsignal("cipo", Pins(<<a.cipo>>, "i"), NoAttrs),
             Subsignal("wp",   PinsN(<<a.wp_n>>, "o"), NoAttrs),
             Subsignal("hold", PinsN(<<a.hold_n>>, "o"), NoAttrs) >>,
          "", a.attrs),
       Resource("spi_flash_2x", number,
          << Subsignal("cs",   PinsN(<<a.cs_n>>, "o"), NoAttrs),
             Subsignal("clk",  Pins(<<a.clk>>, "o"), NoAttrs),
             Subsignal("dq",   Pins(<<a.copi, a.cipo>>, "io"), NoAttrs) >>,
          "", a.attrs),
       Resource("spi_flash_4x", number,
          << Subsignal("cs",   PinsN(<<a.cs_n>>, "o"), NoAttrs),
             Subsignal("clk",  Pins(<<a.clk>>, "o"), NoAttrs),
             Subsignal("dq",   Pins(<<a.copi, a.cipo, a.wp_n, a.hold_n>>, "io"),
                               NoAttrs) >>,
          "", a.attrs) >>

resources ==
    << clk100_resource, ddr3_resource >> \o SPIFlashResources(0, SPIFlashArgs)

p4_pins ==
    << "A14", "A13", "D13", "D12", "A11", "B11", "F14", "F13",
       "B14", "B13", "A16", "A15", "A9", "A10", "B12", "C12",
       "A8", "B8", "C10", "C11", "B9", "C9", "B6", "B7",
       "C5", "C6", "A5", "A6", "C7", "D8", "D7", "E7",
       "D4", "D5", "D3", "E3", "A3", "A4", "B2", "B3",
       "C1", "C2", "A1", "B1", "G1", "H1", "E1", "F1",
       "D2", "E2", "K1", "K2", "J2", "J3", "B4", "C4",
       "E5", "E6", "G2", "H2", "F3", "F5", "G3", "G4",
       "H5", "H6", "H4", "J4", "F6", "G6" >>

p5_pins ==
    << "B16", "B17", "D14", "C14", "C16", "C17", "H14", "G14",
       "T8", "J5", "E15", "E16", "E17", "D17", "F15", "F16",
       "J14", "H15", "H17", "G17", "H16", "G16", "K13", "J13",
       "L15", "L16", "L18", "M18", "R12", "R13", "K15", "J15",
       "M16", "M17", "R18", "T18", "P15", "R15", "N15", "N16",
       "N14", "P14", "P17", "R17", "N17", "P18", "U16", "V17",
       "U17", "U18", "U14", "V14", "V15", "V16", "T14", "T15",
       "R16", "T16", "T9", "T10", "T13", "U13", "T11", "U11",
       "R10", "R11", "V10", "V11", "U12", "V12" >>

\* The FTDI connector's dict literal, in source order.
ftdi_pins ==
    << [key |-> "d0",    pin |-> "A18"],
       [key |-> "d1",    pin |-> "B18"],
       [key |-> "d2",    pin |-> "D18"],
       [key |-> "d3",    pin |-> "E18"],
       [key |-> "d4",    pin |-> "F18"],
       [key |-> "d5",    pin |-> "G18"],
       [key |-> "d6",    pin |-> "J17"],
       [key |-> "d7",    pin |-> "J18"],
       [key |-> "txe",   pin |-> "K16"],
       [key |-> "rxf",   pin |-> "G13"],
       [key |-> "wr_n",  pin |-> "M13"],
       [key |-> "rd_n",  pin |-> "D9"],
       [key |-> "siwub", pin |-> "J18"] >>

\* A copy-and-paste slip: the second header keeps the first header's number.
connectors_p5_numbered_4 ==
    << Connector("p", 4, FALSE, p4_pins),
       Connector("p", 4, FALSE, p5_pins),
       Connector("ftdi", 0, TRUE, ftdi_pins) >>

\* A slip that loses the last, short row of the second header.
connectors_p5_short ==
    << Connector("p", 4, FALSE, p4_pins),
       Connector("p", 5, FALSE, SubSeq(p5_pins, 1, Len(p5_pins) - 6)),
       Connector("ftdi", 0, TRUE, ftdi_pins) >>

connectors ==
    << Connector("p", 4, FALSE, p4_pins),
       Connector("p", 5, FALSE, p5_pins),
       Connector("ftdi", 0, TRUE, ftdi_pins) >>


(***************************************************************************)
(* toolchain_prepare: the overrides dict and the call to the inherited     *)
(* method.                                                                 *)
(***************************************************************************)
FixedKeys == {"script_before_bitstream", "script_after_bitstream",
              "add_constraints"}

\* str.format(name=name): every "{name}" field of the template is replaced.
Format(template, name) ==
    [i \in DOMAIN template |->
        IF template[i] = "{name}" THEN name ELSE template[i]]

\* The two adjacent string literals of script_after_bitstream, joined.
script_after_bitstream_template ==
    << "write_cfgmem -force -format bin -interface spix4 -size 16 ",
       "-loadbit \"up 0x0 ", "{name}", ".bit\" -file ", "{name}", ".bin" >>

Indent == "                "

\* The triple-quoted add_constraints literal, line breaks and indentation kept.
add_constraints_text ==
    << "\n", Indent, "set_property CFGBVS VCCO [current_design]",
       "\n", Indent, "set_property CONFIG_VOLTAGE 3.3 [current_design]",
       "\n", Indent >>

\* A slip that forgets .format(name=name).
overrides_unformatted(name) ==
    [script_before_bitstream |->
        << "set_property BITSTREAM.CONFIG.SPI_BUSWIDTH 4 [current_design]" >>,
     script_after_bitstream |-> script_after_bitstream_template,
     add_constraints |-> add_constraints_text]

overrides(name) ==
    [script_before_bitstream |->
        << "set_property BITSTREAM.CONFIG.SPI_BUSWIDTH 4 [current_design]" >>,
     script_after_bitstream |-> Format(script_after_bitstream_template, name),
     add_constraints |-> add_constraints_text]

\* f(**a, **b) raises TypeError when a key is given twice.
DuplicateKeyword(a, b) == DOMAIN a \cap DOMAIN b # {}

\* A slip that forgets **kwargs in the call.
KeywordArguments_without_kwargs(a, b) == a

\* The keyword arguments f(**a, **b) binds when no key is given twice.
KeywordArguments(a, b) == a @@ b

(***************************************************************************)
(* Inputs.                                                                 *)
(***************************************************************************)
Fragments == {"fragment_a", "fragment_b"}

Names == {"top", "blinky"}

\* What the inherited toolchain_prepare may return (an opaque build plan).
Results == {"plan_a", "plan_b"}

CallerKeys == FixedKeys \cup {"script_after_read", "vivado_opts"}

CallerValues == { << "caller text a" >>, << "caller text b" >> }

CallerKwargs ==
    UNION { [K -> CallerValues] :
              K \in {S \in SUBSET CallerKeys : Cardinality(S) <= MaxKwargs} }

NoKwargs == << >>

(***************************************************************************)
(* State.                                                                  *)
(*   cls          the class attributes of NumatoNesoPlatform               *)
(*   nCalls       toolchain_prepare calls made so far                      *)
(*   lastCall     the arguments of the latest toolchain_prepare call       *)
(*   callerKwargs the caller's override mapping after that call            *)
(*   superCalls   the calls that call made to the inherited method         *)
(*   outcome      "none", "returned" or "TypeError"                        *)
(*   result       what the call returned                                   *)
(*   flashCall    the SPIFlashResources call made while the class body ran *)
(*   buildCalls   the build calls made by the script entry point           *)
(*   mainDone     whether the script entry point has run                   *)
(***************************************************************************)
VARIABLES cls, nCalls, lastCall, callerKwargs, superCalls, outcome, result,
          flashCall, buildCalls, mainDone

vars == << cls, nCalls, lastCall, callerKwargs, superCalls, outcome, result,
           flashCall, buildCalls, mainDone >>

ClassAttributes ==
    [device |-> device, package |-> package, speed |-> speed,
     default_clk |-> default_clk, default_rst |-> default_rst,
     resources |-> resources, connectors |-> connectors]

Init ==
    /\ cls = ClassAttributes
    /\ nCalls = 0
    /\ lastCall = [fragment |-> "", name |-> "", kwargs |-> NoKwargs]
    /\ callerKwargs = NoKwargs
    /\ superCalls = << >>
    /\ outcome = "none"
    /\ result = ""
    /\ flashCall = [number |-> 0, args |-> SPIFlashArgs]
    /\ buildCalls = << >>
    /\ mainDone = FALSE

\* The call of line 133: super().toolchain_prepare(fragment, name,
\* **overrides, **kwargs), and the return of its result.
SuperCall(fragment, name, kwargs) ==
    IF DuplicateKeyword(overrides(name), kwargs)
    THEN /\ outcome' = "TypeError"
         /\ superCalls' = << >>
         /\ result' = ""
    ELSE \E ret \in Results :
         /\ outcome' = "returned"
         /\ superCalls' =
               << [fragment |-> fragment, name |-> name,
                   overrides |-> KeywordArguments(overrides(name), kwargs),
                   ret |-> ret] >>
         /\ result' = ret

\* A slip that stores the merged overrides on the class and in the caller's
\* mapping.
toolchain_prepare_mutating(fragment, name, kwargs) ==
    /\ nCalls < MaxCalls
    /\ SuperCall(fragment, name, kwargs)
    /\ lastCall' = [fragment |-> fragment, name |-> name, kwargs |-> kwargs]
    /\ callerKwargs' = kwargs @@ overrides(name)
    /\ cls' = [cls EXCEPT !.default_rst = name]
    /\ nCalls' = nCalls + 1
    /\ UNCHANGED << flashCall, buildCalls, mainDone >>

toolchain_prepare(fragment, name, kwargs) ==
    /\ nCalls < MaxCalls
    /\ SuperCall(fragment, name, kwargs)
    /\ lastCall' = [fragment |-> fragment, name |-> name, kwargs |-> kwargs]
    /\ callerKwargs' = kwargs
    /\ nCalls' = nCalls + 1
    /\ UNCHANGED << cls, flashCall, buildCalls, mainDone >>

\* if __name__ == "__main__": NumatoNesoPlatform().build(Blinky())
main ==
    /\ ~mainDone
    /\ buildCalls' = Append(buildCalls,
          [platform |-> "NumatoNesoPlatform()", design |-> "Blinky()",
           kwargs |-> NoKwargs])
    /\ mainDone' = TRUE
    /\ UNCHANGED << cls, nCalls, lastCall, callerKwargs, superCalls, outcome,
                    result, flashCall >>

Call ==
    \E fragment \in Fragments, name \in Names, kwargs \in CallerKwargs :
        toolchain_prepare(fragment, name, kwargs)

Next == Call \/ main

Spec == Init /\ [][Next]_vars


(***************************************************************************)
(* Views of the descriptor used by the properties.                         *)
(***************************************************************************)
\* Documented maximum of FPGA IOs for user-defined purposes.
MaxUserIOs == 140

\* Every pin a subsignal names: both halves of a differential pair.
SubsignalPins(s) == s.io.pins \o s.io.npins

ResourcePins(r) ==
    Flatten([i \in DOMAIN r.ios |-> SubsignalPins(r.ios[i])])

\* The six pins given to SPIFlashResources, once each.
FlashPins(a) == << a.cs_n, a.clk, a.copi, a.cipo, a.wp_n, a.hold_n >>

ConnectorPins(c) ==
    IF c.keyed THEN [i \in DOMAIN c.io |-> c.io[i].pin] ELSE c.io

\* Every pin occurrence of the descriptor: the two resources written out in
\* the table, the flash pins, and every connector pin.
DescriptorPins ==
    ResourcePins(cls.resources[1]) \o ResourcePins(cls.resources[2])
        \o FlashPins(flashCall.args)
        \o Flatten([i \in DOMAIN cls.connectors |->
                       ConnectorPins(cls.connectors[i])])

UniqueNameNumber(table) ==
    \A i, j \in DOMAIN table :
        (table[i].name = table[j].name /\ table[i].number = table[j].number)
            => i = j

\* A lookup of resource name/number in the resources table succeeds.
HasResource(name, number) ==
    \E i \in DOMAIN cls.resources :
        cls.resources[i].name = name /\ cls.resources[i].number = number

\* The io of pin header p/number.
HeaderPins(number) ==
    (CHOOSE c \in Range(cls.connectors) :
        c.name = "p" /\ c.number = number).io

\* The statements of a script text: its pieces other than line breaks and
\* indentation.
Statements(text) == SelectSeq(text, LAMBDA t : t \notin {"\n", Indent})

Called == nCalls > 0

(***************************************************************************)
(* Properties.                                                             *)
(***************************************************************************)

\* C1: a toolchain_prepare call with no caller overrides, for any design
\* name, passes to the inherited method exactly three override entries:
\* the SPI bus width property, the write_cfgmem command with the design
\* name in the .bit and the .bin file name, and the two voltage constraint
\* statements.
C1_NoOverridesPassesFixedThree ==
    (Called /\ DOMAIN lastCall.kwargs = {}) =>
        /\ outcome = "returned"
        /\ Len(superCalls) = 1
        /\ LET ov == superCalls[1].overrides
           IN  /\ DOMAIN ov = {"script_before_bitstream",
                               "script_after_bitstream", "add_constraints"}
               /\ ov["script_before_bitstream"] =
                    << "set_property BITSTREAM.CONFIG.SPI_BUSWIDTH 4 [current_design]" >>
               /\ ov["script_after_bitstream"] =
                    << "write_cfgmem -force -format bin -interface spix4 -size 16 ",
                       "-loadbit \"up 0x0 ", lastCall.name, ".bit\" -file ",
                       lastCall.name, ".bin" >>
               /\ Statements(ov["add_constraints"]) =
                    << "set_property CFGBVS VCCO [current_design]",
                       "set_property CONFIG_VOLTAGE 3.3 [current_design]" >>

C1_Witness ==
    /\ Called
    /\ DOMAIN lastCall.kwargs = {}
    /\ outcome = "returned"
    /\ lastCall.name = "blinky"

\* C2: a call whose caller overrides use one of the three fixed keys
\* completes and delegates a merged set in which every fixed key carries
\* this method's value.
C2_FixedKeySupersedesCaller ==
    (Called /\ DOMAIN lastCall.kwargs \cap FixedKeys # {}) =>
        /\ outcome = "returned"
        /\ Len(superCalls) = 1
        /\ \A k \in FixedKeys :
              superCalls[1].overrides[k] = overrides(lastCall.name)[k]

\* C3: no physical pin identifier occurs twice among the pins of the
\* resources table and of the connectors table.
C3_NoPinAssignedTwice ==
    Cardinality(Range(DescriptorPins)) = Len(DescriptorPins)

\* C4: every (name, number) pair is unique within the resources table and
\* within the connectors table.
C4_NameNumberUnique ==
    /\ UniqueNameNumber(cls.resources)
    /\ UniqueNameNumber(cls.connectors)

C4_Witness ==
    /\ \E i, j \in DOMAIN cls.connectors :
          i # j /\ cls.connectors[i].name = cls.connectors[j].name
    /\ \E i, j \in DOMAIN cls.resources :
          i # j /\ cls.resources[i].number = cls.resources[j].number
    /\ HasResource("spi_flash_4x", 0)

\* C5: running the module as a script makes exactly one build call, on a
\* fresh platform with the Blinky design, and passes do_program as true.
C5_MainBuildsWithProgramming ==
    mainDone =>
        /\ Len(buildCalls) = 1
        /\ buildCalls[1].platform = "NumatoNesoPlatform()"
        /\ buildCalls[1].design = "Blinky()"
        /\ "do_program" \in DOMAIN buildCalls[1].kwargs
        /\ buildCalls[1].kwargs["do_program"] = TRUE

\* C6: after any sequence of toolchain_prepare calls the class attributes
\* (device, package, speed, default_clk, default_rst, resources,
\* connectors) have their values of module load, and the caller's override
\* mapping is what the caller passed.
C6_CallsChangeNothing ==
    /\ cls = ClassAttributes
    /\ Called => callerKwargs = lastCall.kwargs

C6_Witness ==
    /\ nCalls = MaxCalls
    /\ outcome = "returned"
    /\ DOMAIN lastCall.kwargs # {}

\* C7: pin headers p/4 and p/5 expose 70 pins each and together exactly
\* the documented 140 user IO pins.
C7_HeadersExpose140 ==
    /\ Len(HeaderPins(4)) = MaxUserIOs \div 2
    /\ Len(HeaderPins(5)) = MaxUserIOs \div 2
    /\ Cardinality(Range(HeaderPins(4)) \cup Range(HeaderPins(5))) = MaxUserIOs

C7_Witness ==
    /\ \E c \in Range(cls.connectors) : c.name = "p" /\ c.number = 4
    /\ \E c \in Range(cls.connectors) : c.name = "p" /\ c.number = 5
    /\ Len(HeaderPins(4)) > 0
    /\ Len(HeaderPins(5)) > 0

\* C8: a call whose caller overrides use no fixed key delegates exactly
\* once to the inherited method with the same fragment and name and with
\* the three fixed entries plus every caller entry unchanged, and returns
\* the inherited method's result.
C8_OtherKeysPassedThrough ==
    (Called /\ DOMAIN lastCall.kwargs \cap FixedKeys = {}) =>
        /\ outcome = "returned"
        /\ Len(superCalls) = 1
        /\ superCalls[1].fragment = lastCall.fragment
        /\ superCalls[1].name = lastCall.name
        /\ DOMAIN superCalls[1].overrides = FixedKeys \cup DOMAIN lastCall.kwargs
        /\ \A k \in FixedKeys :
              superCalls[1].overrides[k] = overrides(lastCall.name)[k]
        /\ \A k \in DOMAIN lastCall.kwargs :
              superCalls[1].overrides[k] = lastCall.kwargs[k]
        /\ result = superCalls[1].ret

C8_Witness ==
    /\ Called
    /\ DOMAIN lastCall.kwargs = {"script_after_read", "vivado_opts"}
    /\ outcome = "returned"
    /\ Len(superCalls) = 1

\* C9: the flash data lines IO[0..3] given to SPIFlashResources as copi,
\* cipo, wp_n and hold_n are K17, K18, L14 and M14, in that order.
C9_FlashDataLines ==
    << flashCall.args.copi, flashCall.args.cipo,
       flashCall.args.wp_n, flashCall.args.hold_n >>
        = << "K17", "K18", "L14", "M14" >>

\* C10: the resources table holds a resource named default_clk with number
\* 0 and a resource named default_rst with number 0.
C10_DefaultsAreDeclared ==
    /\ HasResource(cls.default_clk, 0)
    /\ HasResource(cls.default_rst, 0)

=============================================================================
